---- MODULE Spec2Model ----
(***************************************************************************)
(* Model of the lunar raster preparation scripts:                          *)
(*   src/maps_align.py      LunarRasterProcessor (tile grid, parallel      *)
(*                          per-tile warp, mosaic, alignment check)        *)
(*   src/elevation_shift.py shift_dem (tiled circular column shift)        *)
(***************************************************************************)
EXTENDS Integers, Sequences, FiniteSets, TLC

VARIABLES
    \* ---- LunarRasterProcessor / process_dataset ----
    ref_size,     \* self.ref_size = <<RasterXSize, RasterYSize>>
    ref_gt,       \* self.ref_gt, the six geotransform coefficients
    tile_size,    \* the tile_size argument
    out_path,     \* os.path.basename(out_path)
    pc,           \* position inside process_dataset / create_tile_grid
    err,          \* the exception that left the call, "" when none
    tiles,        \* the list create_tile_grid returned
    tasks,        \* the task tuples handed to the pool
    job,          \* per task: "queued", "running", "done"
    how,          \* per task: what happened inside _process_tile, "" before
    ret,          \* per task: the tuple _process_tile returned, << >> before
    doneOrder,    \* task indexes in the order the workers completed them
    results,      \* what pool.map returned
    valid_tiles,  \* the paths filtered from results
    files,        \* the files that exist on disk
    vrt,          \* the virtual mosaic: its sources, size and geotransform
    out_grid,     \* size and geotransform of the materialized output
    \* ---- shift_dem ----
    s_src,        \* the input band: xsize, ysize, nodata, pix
    s_T,          \* the tile_size argument
    s_shift,      \* split_x
    s_pc,         \* position inside shift_dem
    s_k,          \* number of tiles of the loop already processed
    s_out,        \* the output band's pixels
    s_visited,    \* the (x, y, xsz, ysz) rectangles written so far
    s_pass,       \* 1: first shift, 2: the shift of the first one's output
    s_orig,       \* the pixels of the raster the first pass started from
    \* ---- verify_alignment ----
    v_params,     \* params, one record per raster
    v_i,          \* index of the loop over params[1:]
    v_pc,         \* position inside verify_alignment
    v_err         \* the ValueError raised, "" when none

alignVars  == <<ref_size, ref_gt, tile_size, out_path, pc, err, tiles, tasks, job,
                how, ret, doneOrder, results, valid_tiles, files, vrt, out_grid>>
shiftVars  == <<s_src, s_T, s_shift, s_pc, s_k, s_out, s_visited, s_pass, s_orig>>
verifyVars == <<v_params, v_i, v_pc, v_err>>
vars       == <<alignVars, shiftVars, verifyVars>>

(***************************************************************************)
(* Bounds of the model.                                                    *)
(***************************************************************************)
MaxGrid  == 12   \* raster width and height when only the tile grid is planned
MaxTile  == 3    \* largest tile size
PipeDim  == 3    \* raster width and height when the tile jobs are run
MaxJobs  == 4    \* most tile jobs of one process_dataset run
NWorkers == 2    \* cpu_count(): the size of the pool
ShiftW   == 8    \* largest raster width given to shift_dem
ShiftH   == 4    \* largest raster height given to shift_dem
MaxRasters == 3  \* most rasters given to verify_alignment

TileSizes == (-2) .. MaxTile

Min(a, b) == IF a < b THEN a ELSE b
Max(a, b) == IF a > b THEN a ELSE b
Abs(a)    == IF a < 0 THEN -a ELSE a

SetMin(S) == CHOOSE m \in S : \A n \in S : m <= n
SetMax(S) == CHOOSE m \in S : \A n \in S : m >= n

(***************************************************************************)
(* math.ceil(a / b) for integers, b # 0 (Python's true division, then the  *)
(* ceiling): \div is the floor division.                                   *)
(***************************************************************************)
CeilAsFloor(a, b) == IF b > 0 THEN a \div b ELSE -(a \div (-b))

Ceil(a, b) == IF b > 0 THEN -((-a) \div b) ELSE -(a \div (-b))

(***************************************************************************)
(* create_tile_grid: one tile record for the grid indexes (tx, ty).        *)
(* bounds is the list [min_x, max_y + ysize*abs(gt[5]), min_x + xsize*gt[1],*)
(* max_y] of the code, in that order.                                      *)
(***************************************************************************)
MakeTile(size, gt, T, tx, ty) ==
    LET xoff  == tx * T
        yoff  == ty * T
        xsize == Min(T, size[1] - xoff)
        ysize == Min(T, size[2] - yoff)
        min_x == gt[1] + xoff * gt[2]
        max_y == gt[4] + yoff * gt[6]
    IN  [tx |-> tx, ty |-> ty, xoff |-> xoff, yoff |-> yoff,
         xsize |-> xsize, ysize |-> ysize,
         bounds |-> <<min_x, max_y + ysize * Abs(gt[6]), min_x + xsize * gt[2], max_y>>,
         geotransform |-> <<min_x, gt[2], 0, max_y, 0, gt[6]>>]

(***************************************************************************)
(* create_tile_grid for tile_size # 0: ty is the outer loop, tx the inner  *)
(* one; range(n) is empty when n <= 0.                                     *)
(***************************************************************************)
create_tile_grid(size, gt, T) ==
    LET num_tiles_x == Ceil(size[1], T)
        num_tiles_y == Ceil(size[2], T)
    IN  IF num_tiles_x <= 0 \/ num_tiles_y <= 0
        THEN << >>
        ELSE [k \in 1 .. (num_tiles_x * num_tiles_y) |->
                 MakeTile(size, gt, T, (k - 1) % num_tiles_x, (k - 1) \div num_tiles_x)]

(***************************************************************************)
(* str() of a non-negative integer, as the f-string formats tx and ty.     *)
(***************************************************************************)
DigitStr == <<"0", "1", "2", "3", "4", "5", "6", "7", "8", "9">>

RECURSIVE Dec(_)
Dec(n) == IF n < 10 THEN DigitStr[n + 1] ELSE Dec(n \div 10) \o DigitStr[(n % 10) + 1]

(***************************************************************************)
(* The tile path of process_dataset:                                       *)
(* join(temp_dir, f"{basename}_tile_{tx}_{ty}.tif").                       *)
(***************************************************************************)
TileNameNoSeparator(base, tx, ty) == "tiles/" \o base \o "_tile_" \o Dec(tx) \o Dec(ty) \o ".tif"

TileName(base, tx, ty) == "tiles/" \o base \o "_tile_" \o Dec(tx) \o "_" \o Dec(ty) \o ".tif"

MakeTasks(base, ts) == [i \in 1 .. Len(ts) |-> [path |-> TileName(base, ts[i].tx, ts[i].ty), tile |-> ts[i]]]

(***************************************************************************)
(* The file system: a set of raster files [path, size, gt, proj];          *)
(* creating a file replaces the one of the same path.                      *)
(***************************************************************************)
WriteFile(fs, f) == {g \in fs : g.path # f.path} \cup {f}

Paths(fs) == {f.path : f \in fs}

RefProj == "Moon_Equirectangular"

NoGrid == [size |-> <<0, 0>>, gt |-> <<0, 0, 0, 0, 0, 0>>, proj |-> ""]

NoVrt == [sources |-> << >>, size |-> <<0, 0>>, gt |-> <<0, 0, 0, 0, 0, 0>>, proj |-> ""]

(***************************************************************************)
(* States of the three programs before they are called / when not in use.  *)
(***************************************************************************)
AlignIdle ==
    /\ ref_size = <<1, 1>> /\ ref_gt = <<0, 1, 0, 0, 0, -1>> /\ tile_size = 1
    /\ out_path = "" /\ pc = "idle" /\ err = "" /\ tiles = << >> /\ tasks = << >>
    /\ job = << >> /\ how = << >> /\ ret = << >>
    /\ doneOrder = << >> /\ results = << >> /\ valid_tiles = << >>
    /\ files = {} /\ vrt = NoVrt /\ out_grid = NoGrid

ShiftIdle ==
    /\ s_src = [xsize |-> 1, ysize |-> 1, nodata |-> 0, pix |-> << >>]
    /\ s_T = 1 /\ s_shift = 0 /\ s_pc = "idle" /\ s_k = 0 /\ s_out = << >>
    /\ s_visited = << >> /\ s_pass = 1 /\ s_orig = << >>

VerifyIdle ==
    /\ v_params = << >> /\ v_i = 0 /\ v_pc = "idle" /\ v_err = ""

(***************************************************************************)
(* LunarRasterProcessor after __init__, and the arguments of the call.     *)
(***************************************************************************)
InitAlign(dims, gts, names) ==
    /\ ref_size \in dims \X dims
    /\ ref_gt \in gts
    /\ tile_size \in TileSizes
    /\ out_path \in names
    /\ pc = "start" /\ err = "" /\ tiles = << >> /\ tasks = << >>
    /\ job = << >> /\ how = << >> /\ ret = << >>
    /\ doneOrder = << >> /\ results = << >> /\ valid_tiles = << >>
    /\ files = {} /\ vrt = NoVrt /\ out_grid = NoGrid

(***************************************************************************)
(* A direct call of create_tile_grid(tile_size): full_size_x / tile_size    *)
(* raises ZeroDivisionError when tile_size is 0.                           *)
(***************************************************************************)
CreateTileGrid ==
    /\ pc = "start"
    /\ IF tile_size = 0
       THEN /\ pc' = "raised" /\ err' = "ZeroDivisionError"
            /\ UNCHANGED tiles
       ELSE /\ tiles' = create_tile_grid(ref_size, ref_gt, tile_size)
            /\ pc' = "grid"
            /\ UNCHANGED err
    /\ UNCHANGED <<ref_size, ref_gt, tile_size, out_path, tasks, job, how, ret,
                   doneOrder, results, valid_tiles, files, vrt, out_grid>>
    /\ UNCHANGED <<shiftVars, verifyVars>>

(***************************************************************************)
(* process_dataset up to the creation of the pool: the tile grid, the      *)
(* temporary directory, one task per tile.                                 *)
(***************************************************************************)
Submit ==
    /\ pc = "start"
    /\ IF tile_size = 0
       THEN /\ pc' = "raised" /\ err' = "ZeroDivisionError"
            /\ UNCHANGED <<tiles, tasks, job, how, ret>>
       ELSE /\ tiles' = create_tile_grid(ref_size, ref_gt, tile_size)
            /\ tasks' = MakeTasks(out_path, tiles')
            /\ job' = [i \in 1 .. Len(tiles') |-> "queued"]
            /\ how' = [i \in 1 .. Len(tiles') |-> ""]
            /\ ret' = [i \in 1 .. Len(tiles') |-> << >>]
            /\ pc' = "pool"
            /\ UNCHANGED err
    /\ UNCHANGED <<ref_size, ref_gt, tile_size, out_path, doneOrder,
                   results, valid_tiles, files, vrt, out_grid>>
    /\ UNCHANGED <<shiftVars, verifyVars>>

(***************************************************************************)
(* A worker of the pool takes a task that is still queued.                 *)
(***************************************************************************)
StartJob(i) ==
    /\ pc = "pool"
    /\ job[i] = "queued"
    /\ Cardinality({j \in DOMAIN job : job[j] = "running"}) < NWorkers
    /\ job' = [job EXCEPT ![i] = "running"]
    /\ UNCHANGED <<ref_size, ref_gt, tile_size, out_path, pc, err, tiles, tasks,
                   how, ret, doneOrder, results, valid_tiles, files, vrt, out_grid>>
    /\ UNCHANGED <<shiftVars, verifyVars>>

(***************************************************************************)
(* _process_tile(args), as far as it touches the disk, and its result.     *)
(* how = "warp_failed":  gdal.Warp raised or returned None; nothing is     *)
(*                       created; returns (out_path, False)                *)
(* how = "write_failed": the tile file was created and a later call        *)
(*                       raised; returns (out_path, False)                 *)
(* how = "ok":           the tile file was created with the tile's size    *)
(*                       and geotransform; returns (out_path, True)        *)
(***************************************************************************)
Outcomes == {"warp_failed", "write_failed", "ok"}

TileFile(task) ==
    [path |-> task.path,
     size |-> <<task.tile.xsize, task.tile.ysize>>,
     gt   |-> task.tile.geotransform,
     proj |-> RefProj]

process_tile(task, outcome) ==
    [created |-> outcome # "warp_failed", file |-> TileFile(task),
     result  |-> <<task.path, outcome = "ok">>]

FinishJob(i, outcome) ==
    /\ pc = "pool"
    /\ job[i] = "running"
    /\ LET r == process_tile(tasks[i], outcome)
       IN  /\ ret' = [ret EXCEPT ![i] = r.result]
           /\ files' = IF r.created THEN WriteFile(files, r.file) ELSE files
    /\ job' = [job EXCEPT ![i] = "done"]
    /\ how' = [how EXCEPT ![i] = outcome]
    /\ doneOrder' = Append(doneOrder, i)
    /\ UNCHANGED <<ref_size, ref_gt, tile_size, out_path, pc, err, tiles, tasks,
                   results, valid_tiles, vrt, out_grid>>
    /\ UNCHANGED <<shiftVars, verifyVars>>

(***************************************************************************)
(* pool.map(self._process_tile, tasks): entry i is what the call on task i *)
(* returned, whichever worker ran it and whenever it completed.            *)
(***************************************************************************)
pool_map_unordered(rets, order) == [k \in 1 .. Len(order) |-> rets[order[k]]]

pool_map(rets, order) == [i \in 1 .. Len(rets) |-> rets[i]]

(***************************************************************************)
(* valid_tiles = [r[0] for r in results if r[1]]                           *)
(***************************************************************************)
RECURSIVE FilterValidAll(_)
FilterValidAll(rs) ==
    IF rs = << >> THEN << >> ELSE <<rs[1][1]>> \o FilterValidAll(Tail(rs))

RECURSIVE FilterValid(_)
FilterValid(rs) ==
    IF rs = << >> THEN << >>
    ELSE (IF rs[1][2] THEN <<rs[1][1]>> ELSE << >>) \o FilterValid(Tail(rs))

(***************************************************************************)
(* The pool is joined: pool.map returns, the results are filtered, and the *)
(* run stops with RuntimeError when no tile is valid.                      *)
(***************************************************************************)
Collect ==
    /\ pc = "pool"
    /\ \A i \in DOMAIN job : job[i] = "done"
    /\ results' = pool_map(ret, doneOrder)
    /\ valid_tiles' = FilterValid(results')
    /\ IF valid_tiles' = << >>
       THEN pc' = "raised" /\ err' = "RuntimeError"
       ELSE pc' = "filtered" /\ UNCHANGED err
    /\ UNCHANGED <<ref_size, ref_gt, tile_size, out_path, tiles, tasks, job, how, ret,
                   doneOrder, files, vrt, out_grid>>
    /\ UNCHANGED <<shiftVars, verifyVars>>

(***************************************************************************)
(* gdal.BuildVRT(vrt_path, valid_tiles) with no options: the sources are   *)
(* the listed files that exist; the mosaic's extent is the bounding box of *)
(* its sources' extents, its resolution and projection theirs (north-up    *)
(* sources of one resolution).                                             *)
(***************************************************************************)
VrtSources(fs, srcs) == {f \in fs : \E k \in 1 .. Len(srcs) : srcs[k] = f.path}

BuildVRTOf(fs, srcs) ==
    LET S      == VrtSources(fs, srcs)
        any    == CHOOSE f \in S : TRUE
        xres   == any.gt[2]
        yres   == any.gt[6]
        minx   == SetMin({f.gt[1] : f \in S})
        maxx   == SetMax({f.gt[1] + f.size[1] * f.gt[2] : f \in S})
        top    == SetMax({f.gt[4] : f \in S})
        bottom == SetMin({f.gt[4] + f.size[2] * f.gt[6] : f \in S})
    IN  [sources |-> srcs,
         size    |-> <<(maxx - minx) \div xres, (top - bottom) \div (-yres)>>,
         gt      |-> <<minx, xres, 0, top, 0, yres>>,
         proj    |-> any.proj]

VrtPath == out_path \o ".vrt"

(***************************************************************************)
(* vrt = gdal.BuildVRT(...); vrt.FlushCache().  With no source that can be *)
(* opened BuildVRT returns None and FlushCache raises AttributeError.      *)
(***************************************************************************)
BuildVRT ==
    /\ pc = "filtered"
    /\ IF VrtSources(files, valid_tiles) = {}
       THEN /\ pc' = "raised" /\ err' = "AttributeError"
            /\ UNCHANGED <<vrt, files>>
       ELSE /\ vrt' = BuildVRTOf(files, valid_tiles)
            /\ files' = WriteFile(files, [path |-> VrtPath, size |-> vrt'.size,
                                          gt |-> vrt'.gt, proj |-> vrt'.proj])
            /\ pc' = "vrt"
            /\ UNCHANGED err
    /\ UNCHANGED <<ref_size, ref_gt, tile_size, out_path, tiles, tasks, job, how, ret,
                   doneOrder, results, valid_tiles, out_grid>>
    /\ UNCHANGED <<shiftVars, verifyVars>>

(***************************************************************************)
(* gdal.Translate(out_path, vrt_path, ...), os.remove(vrt_path), return.   *)
(***************************************************************************)
Translate ==
    /\ pc = "vrt"
    /\ out_grid' = [size |-> vrt.size, gt |-> vrt.gt, proj |-> vrt.proj]
    /\ files' = {f \in WriteFile(files, [path |-> out_path, size |-> vrt.size,
                                         gt |-> vrt.gt, proj |-> vrt.proj]) :
                   f.path # VrtPath}
    /\ pc' = "done"
    /\ UNCHANGED <<ref_size, ref_gt, tile_size, out_path, err, tiles, tasks, job, how,
                   ret, doneOrder, results, valid_tiles, vrt>>
    /\ UNCHANGED <<shiftVars, verifyVars>>

(***************************************************************************)
(* The reference grids: the default grid of __init__ (target_res = 200)    *)
(* and grids read from a reference file, north-up and south-up.            *)
(***************************************************************************)
DefaultGt == <<-100, 200, 0, 2729300, 0, -200>>

RefGts == {DefaultGt, <<0, 1, 0, 10, 0, -2>>, <<5, 2, 0, -3, 0, 3>>}

OutNames == {"aligned_elevation.tif"}

TileCount(size, T) ==
    IF T = 0 THEN 0 ELSE Len(create_tile_grid(size, DefaultGt, T))

(***************************************************************************)
(* process_dataset with its pool of workers.                               *)
(***************************************************************************)
Init ==
    /\ InitAlign(1 .. PipeDim, {DefaultGt}, OutNames)
    /\ TileCount(ref_size, tile_size) <= MaxJobs
    /\ ShiftIdle /\ VerifyIdle

Next ==
    \/ Submit
    \/ \E i \in DOMAIN job : StartJob(i)
    \/ \E i \in DOMAIN job : \E o \in Outcomes : FinishJob(i, o)
    \/ Collect
    \/ BuildVRT
    \/ Translate

Spec == Init /\ [][Next]_vars

(***************************************************************************)
(* The tile grid and the task list alone, on larger rasters.               *)
(***************************************************************************)
InitPlan ==
    /\ InitAlign(1 .. MaxGrid, RefGts, OutNames)
    /\ ShiftIdle /\ VerifyIdle

NextPlan ==
    \/ CreateTileGrid
    \/ Submit

SpecPlan == InitPlan /\ [][NextPlan]_vars

(***************************************************************************)
(* shift_dem.                                                              *)
(*                                                                         *)
(* A band is a function pix[r][c], r in 0..ysize-1, c in 0..xsize-1, of    *)
(* integers >= 0.  NaN stands for np.nan and Unwritten for a pixel of the  *)
(* created output band that no WriteArray has reached.                     *)
(***************************************************************************)
NaN == -1

Unwritten == -2

Blank(xsize, ysize) == [r \in 0 .. (ysize - 1) |-> [c \in 0 .. (xsize - 1) |-> Unwritten]]

(***************************************************************************)
(* range(0, n, step) for step # 0, as the sequence of its values.          *)
(***************************************************************************)
RangeLen(n, step) == IF step > 0 /\ n > 0 THEN Ceil(n, step) ELSE 0

(***************************************************************************)
(* The k-th (k >= 0) rectangle of the loop nest                            *)
(*   for y in range(0, ysize, T): for x in range(0, xsize, T)              *)
(***************************************************************************)
NumShiftTiles(xsize, ysize, T) == RangeLen(ysize, T) * RangeLen(xsize, T)

ShiftRect(xsize, ysize, T, k) ==
    LET nx == RangeLen(xsize, T)
        y  == (k \div nx) * T
        x  == (k % nx) * T
    IN  [x |-> x, y |-> y, xsz |-> Min(T, xsize - x), ysz |-> Min(T, ysize - y)]

(***************************************************************************)
(* band.ReadAsArray(xoff, yoff, w, h): an array of h rows and w columns.   *)
(***************************************************************************)
ReadAsArray(pix, xoff, yoff, w, h) ==
    [i \in 0 .. (h - 1) |-> [j \in 0 .. (w - 1) |-> pix[yoff + i][xoff + j]]]

(***************************************************************************)
(* np.concatenate((a, b), axis=1) of arrays of h rows, wa and wb columns.  *)
(***************************************************************************)
Concatenate(a, wa, b, wb, h) ==
    [i \in 0 .. (h - 1) |-> [j \in 0 .. (wa + wb - 1) |->
        IF j < wa THEN a[i][j] ELSE b[i][j - wa]]]

(***************************************************************************)
(* The raw tile of the rectangle (x, y, xsz, ysz) under the column shift   *)
(* split_x: one read, or two reads joined when the source window passes    *)
(* the right edge.                                                         *)
(***************************************************************************)
ReadTileSwapped(pix, xsize, split_x, x, y, xsz, ysz) ==
    LET src_x == (x + split_x) % xsize
    IN  IF src_x + xsz > xsize
        THEN LET part1_width == xsize - src_x
                 part2_width == xsz - part1_width
                 part1 == ReadAsArray(pix, src_x, y, part1_width, ysz)
                 part2 == ReadAsArray(pix, 0, y, part2_width, ysz)
             IN  Concatenate(part2, part2_width, part1, part1_width, ysz)
        ELSE ReadAsArray(pix, src_x, y, xsz, ysz)

ReadTile(pix, xsize, split_x, x, y, xsz, ysz) ==
    LET src_x == (x + split_x) % xsize
    IN  IF src_x + xsz > xsize
        THEN LET part1_width == xsize - src_x
                 part2_width == xsz - part1_width
                 part1 == ReadAsArray(pix, src_x, y, part1_width, ysz)
                 part2 == ReadAsArray(pix, 0, y, part2_width, ysz)
             IN  Concatenate(part1, part1_width, part2, part2_width, ysz)
        ELSE ReadAsArray(pix, src_x, y, xsz, ysz)

(***************************************************************************)
(* np.where(raw_tile == nodata, np.nan, raw_tile), then, when a finite     *)
(* value exists, np.clip to [np.nanmin, np.nanmax] of the tile; NaN        *)
(* compares unequal to everything and is left alone by the clip.           *)
(***************************************************************************)
NormalizeClipTypo(raw, nodata, w, h) ==
    LET marked == [i \in 0 .. (h - 1) |-> [j \in 0 .. (w - 1) |->
                      IF raw[i][j] # NaN /\ raw[i][j] = nodata THEN NaN ELSE raw[i][j]]]
        finite == {marked[i][j] : i \in 0 .. (h - 1), j \in 0 .. (w - 1)} \ {NaN}
    IN  IF finite = {}
        THEN marked
        ELSE LET lo == SetMin(finite)
                 hi == SetMin(finite)
             IN  [i \in 0 .. (h - 1) |-> [j \in 0 .. (w - 1) |->
                     IF marked[i][j] = NaN THEN NaN
                     ELSE Max(lo, Min(marked[i][j], hi))]]

Normalize(raw, nodata, w, h) ==
    LET marked == [i \in 0 .. (h - 1) |-> [j \in 0 .. (w - 1) |->
                      IF raw[i][j] # NaN /\ raw[i][j] = nodata THEN NaN ELSE raw[i][j]]]
        finite == {marked[i][j] : i \in 0 .. (h - 1), j \in 0 .. (w - 1)} \ {NaN}
    IN  IF finite = {}
        THEN marked
        ELSE LET lo == SetMin(finite)
                 hi == SetMax(finite)
             IN  [i \in 0 .. (h - 1) |-> [j \in 0 .. (w - 1) |->
                     IF marked[i][j] = NaN THEN NaN
                     ELSE Max(lo, Min(marked[i][j], hi))]]

(***************************************************************************)
(* output_band.WriteArray(arr, x, y) for an array of h rows and w columns. *)
(***************************************************************************)
WriteArray(out, arr, x, y, w, h) ==
    [r \in DOMAIN out |-> [c \in DOMAIN out[r] |->
        IF r >= y /\ r < y + h /\ c >= x /\ c < x + w
        THEN arr[r - y][c - x] ELSE out[r][c]]]

(***************************************************************************)
(* The input rasters: pixel (r, c) holds (r * xsize + c) % m, the values   *)
(* 0 .. xsize*ysize-1 in row-major order when m is large; the band's       *)
(* nodata value either occurs among them or does not.                      *)
(***************************************************************************)
Pattern(xsize, ysize, m) ==
    [r \in 0 .. (ysize - 1) |-> [c \in 0 .. (xsize - 1) |-> (r * xsize + c) % m]]

NoDataValues == {1, 32767}

Moduli == {3, 32768}

InitShift(widths, heights) ==
    /\ \E w \in widths, h \in heights, m \in Moduli, nd \in NoDataValues :
          s_src = [xsize |-> w, ysize |-> h, nodata |-> nd, pix |-> Pattern(w, h, m)]
    /\ s_T \in TileSizes
    /\ s_shift = 0 /\ s_pc = "start" /\ s_k = 0 /\ s_out = << >>
    /\ s_visited = << >> /\ s_pass = 1 /\ s_orig = s_src.pix

(***************************************************************************)
(* shift_dem up to the tile loop: the shift is half the width, the output  *)
(* dataset is created with the input's size.                               *)
(***************************************************************************)
ShiftOpen ==
    /\ s_pc = "start"
    /\ s_shift' = s_src.xsize \div 2
    /\ s_out' = Blank(s_src.xsize, s_src.ysize)
    /\ s_pc' = "loop"
    /\ UNCHANGED <<s_src, s_T, s_k, s_visited, s_pass, s_orig>>
    /\ UNCHANGED <<alignVars, verifyVars>>

(***************************************************************************)
(* range(0, ysize, 0) raises ValueError.                                   *)
(***************************************************************************)
ShiftRaise ==
    /\ s_pc = "loop"
    /\ s_T = 0
    /\ s_pc' = "raised"
    /\ UNCHANGED <<s_src, s_T, s_shift, s_k, s_out, s_visited, s_pass, s_orig>>
    /\ UNCHANGED <<alignVars, verifyVars>>

(***************************************************************************)
(* One iteration of the tile loop: read, normalize, write.                 *)
(***************************************************************************)
ShiftTile ==
    /\ s_pc = "loop"
    /\ s_T # 0
    /\ s_k < NumShiftTiles(s_src.xsize, s_src.ysize, s_T)
    /\ LET t   == ShiftRect(s_src.xsize, s_src.ysize, s_T, s_k)
           raw == ReadTile(s_src.pix, s_src.xsize, s_shift, t.x, t.y, t.xsz, t.ysz)
           nrm == Normalize(raw, s_src.nodata, t.xsz, t.ysz)
       IN  /\ s_out' = WriteArray(s_out, nrm, t.x, t.y, t.xsz, t.ysz)
           /\ s_visited' = Append(s_visited, t)
    /\ s_k' = s_k + 1
    /\ UNCHANGED <<s_src, s_T, s_shift, s_pc, s_pass, s_orig>>
    /\ UNCHANGED <<alignVars, verifyVars>>

(***************************************************************************)
(* The loop is over: metadata items, the datasets are closed.              *)
(***************************************************************************)
ShiftFinish ==
    /\ s_pc = "loop"
    /\ s_T # 0
    /\ s_k = NumShiftTiles(s_src.xsize, s_src.ysize, s_T)
    /\ s_pc' = "done"
    /\ UNCHANGED <<s_src, s_T, s_shift, s_k, s_out, s_visited, s_pass, s_orig>>
    /\ UNCHANGED <<alignVars, verifyVars>>

(***************************************************************************)
(* The shifted raster is shifted again by the complementary amount         *)
(* xsize - split_x (for an even width this is shift_dem run on its own     *)
(* output), with any positive tile size; the output band carries the       *)
(* input's nodata value.                                                   *)
(***************************************************************************)
ShiftBack ==
    /\ s_pc = "done"
    /\ s_pass = 1
    /\ s_T > 0
    /\ s_src' = [s_src EXCEPT !.pix = s_out]
    /\ s_shift' = s_src.xsize - s_shift
    /\ s_T' \in 1 .. MaxTile
    /\ s_out' = Blank(s_src.xsize, s_src.ysize)
    /\ s_k' = 0 /\ s_visited' = << >> /\ s_pass' = 2 /\ s_pc' = "loop"
    /\ UNCHANGED s_orig
    /\ UNCHANGED <<alignVars, verifyVars>>

InitShiftOnly ==
    /\ InitShift(1 .. ShiftW, 1 .. ShiftH)
    /\ AlignIdle /\ VerifyIdle

NextShift ==
    \/ ShiftOpen
    \/ ShiftRaise
    \/ ShiftTile
    \/ ShiftFinish
    \/ ShiftBack

SpecShift == InitShiftOnly /\ [][NextShift]_vars

(***************************************************************************)
(* The two tile planners on the same raster size and tile size.            *)
(***************************************************************************)
InitTiling ==
    /\ InitShift(1 .. ShiftW, 1 .. ShiftH)
    /\ InitAlign(1 .. ShiftW, {DefaultGt}, OutNames)
    /\ ref_size = <<s_src.xsize, s_src.ysize>>
    /\ tile_size = s_T
    /\ VerifyIdle

NextTiling ==
    \/ CreateTileGrid
    \/ ShiftOpen
    \/ ShiftRaise
    \/ ShiftTile
    \/ ShiftFinish

SpecTiling == InitTiling /\ [][NextTiling]_vars

(***************************************************************************)
(* verify_alignment.                                                       *)
(*                                                                         *)
(* Geotransform coefficients are fixed-point numbers, Scale units to 1.0   *)
(* (one unit is 1e-7).  np.allclose(a, b, atol=1e-6) keeps numpy's default *)
(* rtol=1e-5 and is, element by element,                                   *)
(*     |a - b| <= atol + rtol * |b|                                        *)
(* which in units is |a - b| <= Atol + |b| / RtolInv; the left side is an  *)
(* integer, so the quotient may be rounded down.                           *)
(***************************************************************************)
Scale == 10000000

Atol == 10

RtolInv == 100000

allclose(a, b) ==
    \A k \in DOMAIN a : Abs(a[k] - b[k]) <= Atol + (Abs(b[k]) \div RtolInv)

(***************************************************************************)
(* The check of one raster p against base: the exception message's first   *)
(* words, or "" when the three tests pass.                                 *)
(***************************************************************************)
CheckAgainst(p, base) ==
    IF p.size # base.size THEN "Size mismatch"
    ELSE IF ~allclose(p.gt, base.gt) THEN "Geotransform mismatch"
    ELSE IF p.proj # base.proj THEN "Projection mismatch"
    ELSE ""

(***************************************************************************)
(* One iteration of the loop over params[1:].                              *)
(***************************************************************************)
VerifyStep ==
    /\ v_pc = "loop"
    /\ v_i < Len(v_params) - 1
    /\ LET msg == CheckAgainst(v_params[v_i + 2], v_params[1])
       IN  IF msg # ""
           THEN v_pc' = "raised" /\ v_err' = msg /\ UNCHANGED v_i
           ELSE v_i' = v_i + 1 /\ UNCHANGED <<v_pc, v_err>>
    /\ UNCHANGED v_params
    /\ UNCHANGED <<alignVars, shiftVars>>

(***************************************************************************)
(* The loop ends: "All rasters aligned perfectly!".                        *)
(***************************************************************************)
VerifyPass ==
    /\ v_pc = "loop"
    /\ v_i = Len(v_params) - 1
    /\ v_pc' = "passed"
    /\ UNCHANGED <<v_params, v_i, v_err>>
    /\ UNCHANGED <<alignVars, shiftVars>>

(***************************************************************************)
(* The rasters given to verify_alignment: a first raster, and rasters that *)
(* differ from it in width by dw pixels, in one geotransform coefficient   *)
(* by d units, and possibly in projection.                                 *)
(***************************************************************************)
BaseGts == {<<-100 * Scale, 200 * Scale, 0, 150 * Scale, 0, -200 * Scale>>,
            <<0, Scale, 0, 0, 0, -Scale>>}

Deltas == {0, 1, -1, 11, -11, 10000, 100000, -100000}

BaseRaster(gt) == [size |-> <<4, 3>>, gt |-> gt, proj |-> RefProj]

Variants(b) ==
    {[size |-> <<b.size[1] + dw, b.size[2]>>,
      gt   |-> [b.gt EXCEPT ![k] = @ + d],
      proj |-> pj] :
        dw \in {0, 1}, k \in 1 .. 6, d \in Deltas,
        pj \in {RefProj, "Moon_Stereographic"}}

RECURSIVE SeqsOver(_, _)
SeqsOver(S, n) ==
    IF n = 0 THEN {<< >>} ELSE {Append(q, x) : q \in SeqsOver(S, n - 1), x \in S}

InitVerify ==
    /\ \E gt \in BaseGts, n \in 1 .. (MaxRasters - 1) :
          \E rest \in SeqsOver(Variants(BaseRaster(gt)), n) :
              v_params = <<BaseRaster(gt)>> \o rest
    /\ v_i = 0 /\ v_pc = "loop" /\ v_err = ""
    /\ AlignIdle /\ ShiftIdle

NextVerify ==
    \/ VerifyStep
    \/ VerifyPass

SpecVerify == InitVerify /\ [][NextVerify]_vars

(***************************************************************************)
(*                              Properties                                 *)
(***************************************************************************)

(***************************************************************************)
(* The rectangles rs (fields x, y, w, h) cover every pixel of              *)
(* [0,W) x [0,H) exactly once, stay inside the raster, and have both       *)
(* dimensions in 1..T.                                                     *)
(***************************************************************************)
CoversOnce(rs, W, H, T) ==
    /\ \A px \in 0 .. (W - 1), py \in 0 .. (H - 1) :
          Cardinality({k \in DOMAIN rs :
              /\ rs[k].x <= px /\ px < rs[k].x + rs[k].w
              /\ rs[k].y <= py /\ py < rs[k].y + rs[k].h}) = 1
    /\ \A k \in DOMAIN rs :
          /\ rs[k].x >= 0 /\ rs[k].x + rs[k].w <= W
          /\ rs[k].y >= 0 /\ rs[k].y + rs[k].h <= H
          /\ rs[k].w \in 1 .. T
          /\ rs[k].h \in 1 .. T

GridRects == [k \in DOMAIN tiles |->
                 [x |-> tiles[k].xoff, y |-> tiles[k].yoff,
                  w |-> tiles[k].xsize, h |-> tiles[k].ysize]]

LoopRects == [k \in DOMAIN s_visited |->
                 [x |-> s_visited[k].x, y |-> s_visited[k].y,
                  w |-> s_visited[k].xsz, h |-> s_visited[k].ysz]]

(***************************************************************************)
(* C1: for a positive tile size, the tiles create_tile_grid returns, and   *)
(* the rectangles the tile loop of shift_dem has written when it ends,     *)
(* cover every pixel of the raster exactly once; no tile passes the raster *)
(* edge or has a dimension outside 1..T.                                   *)
(***************************************************************************)
C1_TilesCoverExactlyOnce ==
    /\ (pc = "grid" /\ tile_size > 0) =>
          CoversOnce(GridRects, ref_size[1], ref_size[2], tile_size)
    /\ (s_pc = "done" /\ s_T > 0) =>
          CoversOnce(LoopRects, s_src.xsize, s_src.ysize, s_T)

C1_Witness ==
    /\ pc = "grid" /\ s_pc = "done"
    /\ ref_size = <<8, 4>> /\ tile_size = 3
    /\ Len(tiles) = 6 /\ Len(s_visited) = 6
    /\ tiles[6].xsize = 2 /\ tiles[6].ysize = 1

(***************************************************************************)
(* C4: each tile's bounds, read as (min_x, min_y, max_x, max_y), are the   *)
(* world rectangle of the tile's pixel rectangle under the reference       *)
(* transform, with min_y <= max_y, and the tile's transform has the Y      *)
(* origin gt[3] + yoff*gt[5].                                              *)
(***************************************************************************)
C4_WorldBoundsOfTile ==
    pc = "grid" =>
        \A k \in DOMAIN tiles :
            LET t  == tiles[k]
                x0 == ref_gt[1] + t.xoff * ref_gt[2]
                y0 == ref_gt[4] + t.yoff * ref_gt[6]
                y1 == ref_gt[4] + (t.yoff + t.ysize) * ref_gt[6]
            IN  /\ t.bounds[1] = x0
                /\ t.bounds[3] = x0 + t.xsize * ref_gt[2]
                /\ t.bounds[2] = Min(y0, y1)
                /\ t.bounds[4] = Max(y0, y1)
                /\ t.bounds[2] <= t.bounds[4]
                /\ t.geotransform[4] = y0

(***************************************************************************)
(* C5: with a tile size <= 0 tile planning fails: create_tile_grid does    *)
(* not return a tile list, and shift_dem does not run to completion.       *)
(* (Any exception is accepted as the configuration error.)                 *)
(***************************************************************************)
C5_BadTileSizeIsRejected ==
    /\ tile_size <= 0 => pc \in {"start", "raised"}
    /\ s_T <= 0 => s_pc \in {"start", "loop", "raised"}

(***************************************************************************)
(* C6: what pool.map returned has one entry per submitted task, and entry  *)
(* i is task i's path with the success of task i's own processing,         *)
(* whatever the workers' order and whichever tasks failed.                 *)
(***************************************************************************)
C6_ResultsFollowSubmissionOrder ==
    pc \in {"filtered", "vrt", "done"} \/ (pc = "raised" /\ tile_size # 0) =>
        /\ Len(results) = Len(tiles)
        /\ \A i \in DOMAIN tiles :
              results[i] = <<TileName(out_path, tiles[i].tx, tiles[i].ty), how[i] = "ok">>

C6_Witness ==
    /\ pc = "done"
    /\ Len(tasks) = 4
    /\ doneOrder = <<3, 1, 4, 2>>
    /\ how = <<"ok", "warp_failed", "write_failed", "ok">>

(***************************************************************************)
(* C7: process_dataset fails exactly when no tile job succeeded.  With a   *)
(* success the mosaic is built from exactly the successful tiles; without  *)
(* one the run raises before the mosaic is built, and neither the .vrt     *)
(* file nor out_path exists.                                               *)
(***************************************************************************)
OkPaths == {tasks[i].path : i \in {j \in DOMAIN tasks : how[j] = "ok"}}

C7_FailsIffNoTileSucceeded ==
    /\ pc \in {"filtered", "vrt", "done"} =>
          /\ OkPaths # {}
          /\ {valid_tiles[k] : k \in DOMAIN valid_tiles} = OkPaths
          /\ Len(valid_tiles) = Cardinality(OkPaths)
    /\ pc \in {"vrt", "done"} => vrt.sources = valid_tiles
    /\ pc = "raised" =>
          /\ OkPaths = {}
          /\ VrtPath \notin Paths(files)
          /\ out_path \notin Paths(files)
    /\ pc = "done" => out_path \in Paths(files) /\ VrtPath \notin Paths(files)

C7_Witness ==
    /\ pc = "raised" /\ err = "RuntimeError"
    /\ Len(tasks) = 4
    /\ \E i \in DOMAIN how : how[i] = "write_failed"
    /\ \E i \in DOMAIN how : how[i] = "warp_failed"

(***************************************************************************)
(* C8: when process_dataset returns, the output raster has the target      *)
(* grid's size, geotransform and projection, whichever tiles succeeded.    *)
(***************************************************************************)
C8_OutputHasTargetGrid ==
    pc = "done" =>
        /\ out_grid.size = ref_size
        /\ out_grid.gt = ref_gt
        /\ out_grid.proj = RefProj

(***************************************************************************)
(* C10: within one process_dataset run the tasks of two distinct tiles     *)
(* have distinct tile paths.                                               *)
(***************************************************************************)
C10_TilePathsAreDistinct ==
    pc = "pool" =>
        \A i, j \in DOMAIN tasks : i # j => tasks[i].path # tasks[j].path

C10_Witness ==
    /\ pc = "pool"
    /\ \E i, j \in DOMAIN tasks :
          /\ tasks[i].tile.tx = 1 /\ tasks[i].tile.ty = 10
          /\ tasks[j].tile.tx = 11 /\ tasks[j].tile.ty = 0

(***************************************************************************)
(* The pixel of the raster orig that a circular shift by half the width    *)
(* brings to row r, column c.                                              *)
(***************************************************************************)
ShiftedSource(orig, W, r, c) == orig[r][(c + (W \div 2)) % W]

Rows == 0 .. (s_src.ysize - 1)

Cols == 0 .. (s_src.xsize - 1)

FirstPassDone == s_pc = "done" /\ s_pass = 1 /\ s_T > 0

RoundTripDone == s_pc = "done" /\ s_pass = 2

(***************************************************************************)
(* C2 as stated: after shift_dem, output pixel (r, c) holds the source     *)
(* pixel (r, (c + floor(W/2)) mod W), for every tile size T > 0.           *)
(***************************************************************************)
C2_OutputIsShiftedSource ==
    FirstPassDone =>
        \A r \in Rows, c \in Cols : s_out[r][c] = ShiftedSource(s_orig, s_src.xsize, r, c)

(***************************************************************************)
(* C2 amended: after shift_dem, output pixel (r, c) holds the source pixel *)
(* (r, (c + floor(W/2)) mod W), or NaN when that source pixel equals the   *)
(* band's nodata value; the 8x4 raster 0..31 whose nodata value does not   *)
(* occur yields row 0 = [4,5,6,7,0,1,2,3].                                 *)
(***************************************************************************)
C2_OutputIsShiftedSourceOrNaN ==
    FirstPassDone =>
        /\ \A r \in Rows, c \in Cols :
              s_out[r][c] = IF ShiftedSource(s_orig, s_src.xsize, r, c) = s_src.nodata
                            THEN NaN
                            ELSE ShiftedSource(s_orig, s_src.xsize, r, c)
        /\ (s_src.xsize = 8 /\ s_src.ysize = 4 /\ s_src.nodata = 32767
               /\ s_orig = Pattern(8, 4, 32768)) =>
              /\ s_out[0] = [c \in 0 .. 7 |-> <<4, 5, 6, 7, 0, 1, 2, 3>>[c + 1]]
              /\ s_out[3] = [c \in 0 .. 7 |-> <<28, 29, 30, 31, 24, 25, 26, 27>>[c + 1]]

C2_Witness ==
    /\ FirstPassDone
    /\ s_src.xsize = 8 /\ s_src.ysize = 4 /\ s_T = 3
    /\ s_orig = Pattern(8, 4, 32768)
    /\ s_src.nodata = 1
    /\ s_out[0] = [c \in 0 .. 7 |-> <<4, 5, 6, 7, 0, NaN, 2, 3>>[c + 1]]

WithinAtol(a, b) == \A k \in DOMAIN a : Abs(a[k] - b[k]) <= Atol

AlignedWithFirst(i) ==
    /\ v_params[i].size = v_params[1].size
    /\ v_params[i].proj = v_params[1].proj
    /\ WithinAtol(v_params[i].gt, v_params[1].gt)

C9_PassesIffWithinAbsoluteTolerance ==
    /\ v_pc = "passed" => \A i \in DOMAIN v_params : AlignedWithFirst(i)
    /\ v_pc = "raised" =>
          /\ ~AlignedWithFirst(v_i + 2)
          /\ v_err = "Size mismatch" => v_params[v_i + 2].size # v_params[1].size
          /\ v_err = "Geotransform mismatch" =>
                ~WithinAtol(v_params[v_i + 2].gt, v_params[1].gt)
          /\ v_err = "Projection mismatch" => v_params[v_i + 2].proj # v_params[1].proj

====
